---- MODULE Spec2Model ----
(***************************************************************************)
(* A model of the rotor of klein (public/klein/rotor.hpp): reversion as a  *)
(* sign-bit flip on the four lanes of the register, the convenience        *)
(* constructor from an angle and an axis, the application of a rotor to    *)
(* primitives one at a time and in batches, and the composition of rotors. *)
(*                                                                         *)
(* Three number domains are used, each for the operations it suits:        *)
(*   - bit patterns of LaneBits bits (sign bit on top) for the operations  *)
(*     that act on the bits of a float: _mm_xor_ps, unary minus, stores;   *)
(*   - integers for the sandwich and the geometric product, which are      *)
(*     polynomial in the lanes, so that equal results are equal exactly;   *)
(*   - extended rationals (a finite fraction, +Inf, -Inf, NaN) for the     *)
(*     constructor, which divides and takes a square root.                 *)
(***************************************************************************)
EXTENDS Integers, Sequences, FiniteSets

VARIABLES
    pc,       \* position of the caller's program
    g,        \* reversion: the caller's rotor or motor, [kind, p1, p2]
    res,      \* reversion: the caller's copy, then the value of the last operator~
    nrev,     \* reversion: how many times operator~ was applied
    ctor,     \* constructor: the arguments [ang, x, y, z]
    p1_,      \* constructor: the register of the constructed rotor
    fpflags,  \* constructor: the floating-point exception flags raised
    thrown,   \* constructor: whether an error was signalled to the caller
    rot,      \* sandwich: the rotors [r1, r2, r3]
    prim,     \* sandwich: the primitives [kind, x, y, z, w]
    mem,      \* batch: the caller's array of primitives
    orig,     \* batch: the array as it was before the call
    call      \* batch: the running kernel invocation

vars == <<pc, g, res, nrev, ctor, p1_, fpflags, thrown, rot, prim, mem, orig, call>>

Lanes == 1..4      \* lane k of a register is element k + 1 of the sequence

None == "none"

(***************************************************************************)
(* Part 1. Bit patterns and reversion.                                     *)
(***************************************************************************)

\* Width of a lane's bit pattern in the model (32 in the build).
LaneBits == 3

RECURSIVE Pow2(_)
Pow2(n) == IF n = 0 THEN 1 ELSE 2 * Pow2(n - 1)

Patterns == 0..(Pow2(LaneBits) - 1)

\* The bit patterns of the float literals 0.f and -0.f.
PosZero == 0
NegZero == Pow2(LaneBits - 1)

\* Bitwise exclusive or of two patterns, bit by bit.
RECURSIVE BitXor(_, _)
BitXor(a, b) ==
    IF a = 0 THEN b
    ELSE IF b = 0 THEN a
    ELSE (((a % 2) + (b % 2)) % 2) + 2 * BitXor(a \div 2, b \div 2)

\* _mm_set_ps(e3, e2, e1, e0): the LAST argument is lane 0.
mm_set_ps(e3, e2, e1, e0) == <<e0, e1, e2, e3>>

mm_xor_ps(a, b) == [k \in Lanes |-> BitXor(a[k], b[k])]

\* Unary minus on a float: the sign bit is inverted, whatever the value.
FNeg(p) == (p + NegZero) % Pow2(LaneBits)

rotor_from_m128(p1) == [kind |-> "rotor", p1 |-> p1, p2 |-> None]

\* A reversion that flips every lane, the scalar included.
operator_tilde_flip_all(r) ==
    rotor_from_m128(mm_xor_ps(r.p1, mm_set_ps(NegZero, NegZero, NegZero, NegZero)))

\* A reversion that sets the sign bits instead of inverting them.
operator_tilde_set_sign(r) ==
    rotor_from_m128([k \in Lanes |->
        IF k = 1 THEN r.p1[k]
        ELSE IF r.p1[k] >= NegZero THEN r.p1[k] ELSE r.p1[k] + NegZero])

\* rotor operator~(rotor r): flip = _mm_set_ps(-0.f, -0.f, -0.f, 0.f).
operator_tilde(r) ==
    LET flip == mm_set_ps(NegZero, NegZero, NegZero, PosZero)
    IN  rotor_from_m128(mm_xor_ps(r.p1, flip))

\* Reversion of a motor: both registers, the bivector lanes of each.
motor_operator_tilde(m) ==
    LET flip == mm_set_ps(NegZero, NegZero, NegZero, PosZero)
    IN  [kind |-> "motor", p1 |-> mm_xor_ps(m.p1, flip), p2 |-> mm_xor_ps(m.p2, flip)]

\* The accessors: _mm_store_ss stores lane 0, _mm_store_ps all four.
scalar(r) == r.p1[1]
e12(r) == r.p1[4]
e21(r) == FNeg(e12(r))
e31(r) == r.p1[3]
e13(r) == FNeg(e31(r))
e23(r) == r.p1[2]
e32(r) == FNeg(e23(r))

\* How many times the caller applies operator~ in a row.
MaxRev == 2

Registers == [Lanes -> Patterns]

\* Lanes of the motors tried: both zeros, the smallest pattern, all ones.
MotorLanePatterns == {PosZero, NegZero, 1, Pow2(LaneBits) - 1}

RotorInputs == {rotor_from_m128(p) : p \in Registers}

MotorInputs ==
    {[kind |-> "motor", p1 |-> a, p2 |-> b] :
        a \in [Lanes -> MotorLanePatterns], b \in [Lanes -> {PosZero, NegZero, 1}]}

\* The argument of the next operator~: the caller's copy a of the value.
RevArg == res

NoCtor == ctor = None /\ p1_ = None /\ fpflags = {} /\ thrown = FALSE
NoSandwich == rot = None /\ prim = None
NoBatch == mem = <<>> /\ orig = <<>> /\ call = None

InitRev ==
    /\ pc = "rev"
    /\ g \in RotorInputs \cup MotorInputs
    /\ res = g
    /\ nrev = 0
    /\ NoCtor /\ NoSandwich /\ NoBatch

\* rotor a = g; a = ~a; a = ~a; ... The argument is passed by value.
Reverse ==
    /\ pc = "rev"
    /\ g.kind = "rotor"
    /\ nrev < MaxRev
    /\ res' = operator_tilde(RevArg)
    /\ nrev' = nrev + 1
    /\ UNCHANGED <<pc, g, ctor, p1_, fpflags, thrown, rot, prim, mem, orig, call>>

ReverseMotor ==
    /\ pc = "rev"
    /\ g.kind = "motor"
    /\ nrev < MaxRev
    /\ res' = motor_operator_tilde(RevArg)
    /\ nrev' = nrev + 1
    /\ UNCHANGED <<pc, g, ctor, p1_, fpflags, thrown, rot, prim, mem, orig, call>>

NextRev == Reverse \/ ReverseMotor

SpecRev == InitRev /\ [][NextRev]_vars

\* C2: reversion is an exact involution. After two applications of operator~
\* the result equals the original rotor (or motor) lane for lane, for every
\* bit pattern of the lanes, both zeros and the all-ones pattern included.
C2_ReversionInvolution == nrev = 2 => res = g

\* The case of C2: a rotor with a nonzero bivector lane and a negative zero,
\* reversed twice.
C2_Witness ==
    /\ nrev = 2
    /\ g.kind = "rotor"
    /\ g.p1[2] = NegZero
    /\ g.p1[3] = Pow2(LaneBits) - 1
    /\ res = g

\* C9: reversion of a rotor negates the bivector part only. For the argument
\* r of a call of operator~ and its result: the scalar is unchanged, e23, e31
\* and e12 are the negations of those of r, and the caller's rotor is left as
\* it was.
C9_ReversionNegatesBivectorOnly ==
    [][(g.kind = "rotor" /\ nrev' = nrev + 1) =>
            /\ scalar(res') = scalar(RevArg)
            /\ e23(res') = e32(RevArg)
            /\ e31(res') = e13(RevArg)
            /\ e12(res') = e21(RevArg)
            /\ g' = g]_vars

\* The case of C9: a rotor with three different nonzero bivector lanes,
\* reversed once, its scalar kept and its bivector lanes changed.
C9_Witness ==
    /\ nrev = 1
    /\ g.kind = "rotor"
    /\ scalar(g) = 1
    /\ e23(g) = 1 /\ e31(g) = 2 /\ e12(g) = NegZero + 1
    /\ scalar(res) = 1
    /\ e23(res) = NegZero + 1 /\ e31(res) = NegZero + 2 /\ e12(res) = 1

(***************************************************************************)
(* Part 2. The convenience constructor rotor(ang_rad, x, y, z).            *)
(*                                                                         *)
(* Floats are extended rationals here: [k, n, d] with k = "fin" (n / d in  *)
(* lowest terms, d > 0), k = "inf" (n = 1 or -1) or k = "nan". The inputs  *)
(* are those on which sqrt, sin and cos are exact in this domain: axes     *)
(* whose squared length is a perfect square, and angles whose half has a   *)
(* rational sine and cosine. Rounding is therefore not modelled; division  *)
(* by zero, infinities and NaN are, as IEEE 754 defines them.              *)
(***************************************************************************)

Abs(n) == IF n < 0 THEN -n ELSE n

Sgn(n) == IF n < 0 THEN -1 ELSE IF n > 0 THEN 1 ELSE 0

RECURSIVE Gcd(_, _)
Gcd(a, b) == IF b = 0 THEN a ELSE Gcd(b, a % b)

NaN == [k |-> "nan", n |-> 0, d |-> 0]

Inf(s) == [k |-> "inf", n |-> s, d |-> 0]

\* The fraction n / d (d # 0) in lowest terms with a positive denominator.
Fin(n, d) ==
    LET c == Gcd(Abs(n), Abs(d))
    IN  [k |-> "fin", n |-> Sgn(d) * (n \div c), d |-> Abs(d) \div c]

Flt(i) == Fin(i, 1)

IsZero(a) == a.k = "fin" /\ a.n = 0

\* a * b, and the exception flags it raises (0 * Inf is invalid).
FMul(a, b) ==
    IF a.k = "nan" \/ b.k = "nan" THEN NaN
    ELSE IF a.k = "inf" \/ b.k = "inf"
         THEN IF IsZero(a) \/ IsZero(b) THEN NaN ELSE Inf(Sgn(a.n) * Sgn(b.n))
    ELSE Fin(a.n * b.n, a.d * b.d)

FMulFlags(a, b) ==
    IF a.k # "nan" /\ b.k # "nan" /\ (a.k = "inf" \/ b.k = "inf")
        /\ (IsZero(a) \/ IsZero(b))
    THEN {"invalid"} ELSE {}

\* a + b (Inf - Inf is NaN).
FAdd(a, b) ==
    IF a.k = "nan" \/ b.k = "nan" THEN NaN
    ELSE IF a.k = "inf" /\ b.k = "inf" THEN (IF a.n = b.n THEN a ELSE NaN)
    ELSE IF a.k = "inf" THEN a
    ELSE IF b.k = "inf" THEN b
    ELSE Fin(a.n * b.d + b.n * a.d, a.d * b.d)

\* a / b with a positive zero as the only zero: x / 0 is an infinity of the
\* sign of x and raises divide-by-zero; 0 / 0 and Inf / Inf are NaN (invalid).
FDiv(a, b) ==
    IF a.k = "nan" \/ b.k = "nan" THEN NaN
    ELSE IF a.k = "inf" THEN (IF b.k = "inf" THEN NaN
                              ELSE Inf(a.n * (IF b.n < 0 THEN -1 ELSE 1)))
    ELSE IF b.k = "inf" THEN Flt(0)
    ELSE IF b.n = 0 THEN (IF a.n = 0 THEN NaN ELSE Inf(Sgn(a.n)))
    ELSE Fin(a.n * b.d, a.d * b.n)

FDivFlags(a, b) ==
    IF a.k = "fin" /\ b.k = "fin" /\ b.n = 0
    THEN (IF a.n = 0 THEN {"invalid"} ELSE {"divbyzero"})
    ELSE IF a.k = "inf" /\ b.k = "inf" THEN {"invalid"}
    ELSE {}

\* The largest r with r * r <= n.
RECURSIVE ISqrtFrom(_, _)
ISqrtFrom(n, r) == IF (r + 1) * (r + 1) > n THEN r ELSE ISqrtFrom(n, r + 1)

ISqrt(n) == ISqrtFrom(n, 0)

IsSquare(n) == n >= 0 /\ ISqrt(n) * ISqrt(n) = n

\* std::sqrt, exact on the fractions of two perfect squares (the only
\* fractions it is given here); sqrt of a negative number is NaN.
FSqrt(a) ==
    IF a.k = "nan" THEN NaN
    ELSE IF a.k = "inf" THEN (IF a.n > 0 THEN a ELSE NaN)
    ELSE IF a.n < 0 THEN NaN
    ELSE Fin(ISqrt(a.n), ISqrt(a.d))

\* Largest index of the angles tried, and largest axis coordinate tried.
MaxAngle == 4
MaxAxis == 3

\* <<cos(ang / 2), sin(ang / 2)>> for the angle of index a: the half-angles
\* 0, pi / 2, and four angles of Pythagorean triangles, one of them negative.
HalfAngle(a) ==
    CASE a = 0 -> <<Flt(1), Flt(0)>>
      [] a = 1 -> <<Flt(0), Flt(1)>>
      [] a = 2 -> <<Fin(3, 5), Fin(4, 5)>>
      [] a = 3 -> <<Fin(4, 5), Fin(-3, 5)>>
      [] a = 4 -> <<Fin(-5, 13), Fin(12, 13)>>
      [] a = 5 -> <<Flt(-1), Flt(0)>>
      [] OTHER -> <<Fin(12, 13), Fin(5, 13)>>

\* std::cos(0.5f * ang_rad) and std::sin(0.5f * ang_rad).
cos_half(ang) == HalfAngle(ang)[1]
sin_half(ang) == HalfAngle(ang)[2]

\* _mm_mul_ps on registers of extended rationals, and the flags it raises.
mm_mul_ps(a, b) == [k \in Lanes |-> FMul(a[k], b[k])]

mm_mul_ps_flags(a, b) == UNION {FMulFlags(a[k], b[k]) : k \in Lanes}

\* The constructor with the square root of the axis norm forgotten.
rotor_ctor_no_sqrt(ang_rad, x, y, z) ==
    LET norm     == FAdd(FAdd(FMul(x, x), FMul(y, y)), FMul(z, z))
        inv_norm == FDiv(Flt(-1), norm)
        scale    == FMul(sin_half(ang_rad), inv_norm)
        first    == mm_set_ps(z, y, x, cos_half(ang_rad))
        factor   == mm_set_ps(scale, scale, scale, Flt(1))
    IN  [p1 |-> mm_mul_ps(first, factor), flags |-> {}]

\* rotor::rotor(float ang_rad, float x, float y, float z) noexcept: the
\* register it leaves in p1_ and the exception flags its operations raise.
rotor_ctor(ang_rad, x, y, z) ==
    LET norm     == FSqrt(FAdd(FAdd(FMul(x, x), FMul(y, y)), FMul(z, z)))
        inv_norm == FDiv(Flt(-1), norm)
        sin_ang  == sin_half(ang_rad)
        scale    == FMul(sin_ang, inv_norm)
        first    == mm_set_ps(z, y, x, cos_half(ang_rad))
        factor   == mm_set_ps(scale, scale, scale, Flt(1))
    IN  [p1    |-> mm_mul_ps(first, factor),
         flags |-> FDivFlags(Flt(-1), norm) \cup FMulFlags(sin_ang, inv_norm)
                    \cup mm_mul_ps_flags(first, factor)]

AxisCoords == (-MaxAxis)..MaxAxis

CtorInputs ==
    {[ang |-> a, x |-> x, y |-> y, z |-> z] :
        a \in 0..MaxAngle, x \in AxisCoords, y \in AxisCoords, z \in AxisCoords}

NoRev == g = None /\ res = None /\ nrev = 0

InitCtor ==
    /\ pc = "construct"
    /\ ctor \in {c \in CtorInputs : IsSquare(c.x * c.x + c.y * c.y + c.z * c.z)}
    /\ p1_ = None
    /\ fpflags = {}
    /\ thrown = FALSE
    /\ NoRev /\ NoSandwich /\ NoBatch

\* rotor r{ang_rad, x, y, z}; the constructor is noexcept and has no throw.
Construct ==
    /\ pc = "construct"
    /\ LET made == rotor_ctor(ctor.ang, Flt(ctor.x), Flt(ctor.y), Flt(ctor.z))
       IN  /\ p1_' = made.p1
           /\ fpflags' = made.flags
    /\ thrown' = FALSE
    /\ pc' = "constructed"
    /\ UNCHANGED <<g, res, nrev, ctor, rot, prim, mem, orig, call>>

NextCtor == Construct

SpecCtor == InitCtor /\ [][NextCtor]_vars

ZeroAxis == ctor.x = 0 /\ ctor.y = 0 /\ ctor.z = 0

SumSq3(a, b, c) == FAdd(FAdd(FMul(a, a), FMul(b, b)), FMul(c, c))

C10_ZeroAxisNotDivided ==
    (pc = "constructed" /\ ZeroAxis) => ("divbyzero" \notin fpflags /\ ~thrown)

(***************************************************************************)
(* Part 3. The sandwich kernels and the application of a rotor.            *)
(*                                                                         *)
(* Lanes are integers here: the sandwich and the geometric product are     *)
(* polynomials in the lanes, so results that agree agree exactly. Memory   *)
(* is a sequence of registers and a pointer is an index into it; a plane,  *)
(* point, direction or branch is one register, a line two (p1_, p2_).      *)
(***************************************************************************)

\* One register a conjugated by the rotor b, r a ~r, without translation:
\* lane 0 (e0 of a plane, the weight of a point) is scaled by the norm of b,
\* lanes 1 to 3 are rotated.
sandwich_register(a, b) ==
    <<a[1] * (b[1] * b[1] + b[2] * b[2] + b[3] * b[3] + b[4] * b[4]),
      a[2] * (b[1] * b[1] + b[2] * b[2] - b[3] * b[3] - b[4] * b[4])
        + 2 * a[3] * (b[1] * b[4] + b[2] * b[3])
        + 2 * a[4] * (b[2] * b[4] - b[1] * b[3]),
      a[3] * (b[1] * b[1] - b[2] * b[2] + b[3] * b[3] - b[4] * b[4])
        + 2 * a[4] * (b[1] * b[2] + b[3] * b[4])
        + 2 * a[2] * (b[2] * b[3] - b[1] * b[4]),
      a[4] * (b[1] * b[1] - b[2] * b[2] - b[3] * b[3] + b[4] * b[4])
        + 2 * a[2] * (b[1] * b[3] + b[2] * b[4])
        + 2 * a[3] * (b[3] * b[4] - b[1] * b[2])>>

\* Registers a kernel reads and writes per element.
Stride(k) == IF k.fn = "swMM" /\ k.InputP2 THEN 2 ELSE 1

\* The loop bound of a kernel: count when Variadic, one element otherwise.
Limit(k) == IF k.Variadic THEN k.count ELSE 1

\* Iteration i (from 0) of a kernel's loop on memory m: element i is read
\* through the input pointer, conjugated, and stored through the output
\* pointer.
KernelIter(m, k, i) ==
    LET src == k.a + i * Stride(k)
        dst == k.out + i * Stride(k)
    IN  [j \in DOMAIN m |->
            IF j >= dst /\ j < dst + Stride(k)
            THEN sandwich_register(m[src + (j - dst)], k.b)
            ELSE m[j]]

\* detail::sw012<Variadic, Translate> and detail::swMM<Variadic, Translate,
\* InputP2> run to their end: iterations i, i + 1, ..., Limit - 1.
RECURSIVE KernelRun(_, _, _)
KernelRun(m, k, i) ==
    IF i >= Limit(k) THEN m ELSE KernelRun(KernelIter(m, k, i), k, i + 1)

\* The template arguments and arguments of a kernel invocation; c is the
\* translation register, a null pointer for a rotor.
sw012(Variadic, Translate, a, b, c, out, count) ==
    [fn |-> "sw012", Variadic |-> Variadic, Translate |-> Translate,
     InputP2 |-> FALSE, a |-> a, b |-> b, c |-> c, out |-> out, count |-> count]

swMM(Variadic, Translate, InputP2, a, b, c, out, count) ==
    [fn |-> "swMM", Variadic |-> Variadic, Translate |-> Translate,
     InputP2 |-> InputP2, a |-> a, b |-> b, c |-> c, out |-> out, count |-> count]

Prim(kind, regs) == [kind |-> kind, regs |-> regs]

\* A single-entity call: the argument at address 1, the local `out`, not yet
\* written, behind it; the kernel invocation is made and `out` returned.
SingleCall(x, k) ==
    LET n  == Len(x.regs)
        m0 == x.regs \o [j \in 1..n |-> None]
        m1 == KernelRun(m0, k, 0)
    IN  Prim(x.kind, [j \in 1..n |-> m1[n + j]])

\* rotor::operator()(plane const&), (point const&), (direction const&),
\* (branch const&) and (line const&).
rotor_call(r, x) ==
    CASE x.kind \in {"plane", "point", "direction"} ->
            SingleCall(x, sw012(FALSE, FALSE, 1, r, None, 2, 0))
      [] x.kind = "branch" ->
            SingleCall(x, swMM(FALSE, FALSE, FALSE, 1, r, None, 2, 0))
      [] x.kind = "line" ->
            SingleCall(x, swMM(FALSE, FALSE, TRUE, 1, r, None, 3, 0))

\* The geometric product of two rotors, a * b, on the basis 1, e23, e31, e12
\* (e23 e31 = -e12, e31 e12 = -e23, e12 e23 = -e31).
rotor_mul(a, b) ==
    <<a[1] * b[1] - a[2] * b[2] - a[3] * b[3] - a[4] * b[4],
      a[1] * b[2] + a[2] * b[1] - a[3] * b[4] + a[4] * b[3],
      a[1] * b[3] + a[3] * b[1] - a[4] * b[2] + a[2] * b[4],
      a[1] * b[4] + a[4] * b[1] - a[2] * b[3] + a[3] * b[2]>>

\* The operands of the documented composition the other way round.
compose_first_then_second_swapped(first, second) == rotor_mul(first, second)

\* "a rotor equivalent to first applying r1, then applying r2":
\* kln::rotor r3 = r2 * r1.
compose_first_then_second(first, second) == rotor_mul(second, first)

\* Largest absolute value of a lane of the rotors r1 tried.
MaxCoord == 1

IntRegisters == [Lanes -> (-MaxCoord)..MaxCoord]

\* Rotors tried as r2 and in batches: units, non-units and the identity.
SampleRotors ==
    {<<1, 0, 0, 0>>, <<0, 0, 1, 0>>, <<1, 1, 0, 0>>, <<1, -1, 1, 1>>,
     <<2, 0, -1, 1>>, <<0, 1, 2, -2>>}

\* Primitives tried: a plane (d, a, b, c), a point (w, x, y, z), a direction
\* (0, x, y, z), a branch (0, e23, e31, e12) and a line (p1_, p2_).
SamplePrims ==
    {Prim("plane", <<<<3, 1, 0, 0>>>>), Prim("plane", <<<<-1, 1, 2, -3>>>>),
     Prim("plane", <<<<0, 0, 1, 1>>>>),
     Prim("point", <<<<1, 1, 3, 2>>>>), Prim("point", <<<<1, 0, -1, 0>>>>),
     Prim("point", <<<<2, -2, 1, 1>>>>),
     Prim("direction", <<<<0, 1, 0, 0>>>>), Prim("direction", <<<<0, 2, -1, 3>>>>),
     Prim("direction", <<<<0, 0, 1, -1>>>>),
     Prim("branch", <<<<0, 1, 2, 3>>>>), Prim("branch", <<<<0, 0, 0, 1>>>>),
     Prim("line", <<<<0, 1, 0, 0>>, <<0, 0, 2, 1>>>>),
     Prim("line", <<<<0, 1, -1, 2>>, <<0, 3, 0, -1>>>>),
     Prim("line", <<<<0, 0, 0, 1>>, <<0, 1, 1, 0>>>>)}

InitCompose ==
    /\ pc = "compose"
    /\ rot \in {[r1 |-> a, r2 |-> b, r3 |-> None] :
                    a \in IntRegisters, b \in SampleRotors}
    /\ prim \in {[x |-> x, y |-> None, z |-> None, w |-> None] : x \in SamplePrims}
    /\ NoRev /\ NoCtor /\ NoBatch

\* rotor r3 = r2 * r1;
Compose ==
    /\ pc = "compose"
    /\ rot' = [rot EXCEPT !.r3 = compose_first_then_second(rot.r1, rot.r2)]
    /\ pc' = "apply_r1"
    /\ UNCHANGED <<g, res, nrev, ctor, p1_, fpflags, thrown, prim, mem, orig, call>>

\* y = r1(x);
ApplyFirst ==
    /\ pc = "apply_r1"
    /\ prim' = [prim EXCEPT !.y = rotor_call(rot.r1, prim.x)]
    /\ pc' = "apply_r2"
    /\ UNCHANGED <<g, res, nrev, ctor, p1_, fpflags, thrown, rot, mem, orig, call>>

\* z = r2(y);
ApplySecond ==
    /\ pc = "apply_r2"
    /\ prim' = [prim EXCEPT !.z = rotor_call(rot.r2, prim.y)]
    /\ pc' = "apply_r3"
    /\ UNCHANGED <<g, res, nrev, ctor, p1_, fpflags, thrown, rot, mem, orig, call>>

\* w = r3(x);
ApplyComposed ==
    /\ pc = "apply_r3"
    /\ prim' = [prim EXCEPT !.w = rotor_call(rot.r3, prim.x)]
    /\ pc' = "composed"
    /\ UNCHANGED <<g, res, nrev, ctor, p1_, fpflags, thrown, rot, mem, orig, call>>

NextCompose == Compose \/ ApplyFirst \/ ApplySecond \/ ApplyComposed

SpecCompose == InitCompose /\ [][NextCompose]_vars

rotor_call_batch_not_variadic(kind, r, in, out, count) ==
    CASE kind \in {"plane", "point", "direction"} ->
            sw012(FALSE, FALSE, in, r, None, out, count)
      [] kind = "line" ->
            swMM(FALSE, FALSE, TRUE, in, r, None, out, count)

\* rotor::operator()(plane* in, plane* out, size_t count) and the same for
\* line, point and direction: the kernel invocation each makes.
rotor_call_batch(kind, r, in, out, count) ==
    CASE kind \in {"plane", "point", "direction"} ->
            sw012(TRUE, FALSE, in, r, None, out, count)
      [] kind = "line" ->
            swMM(TRUE, FALSE, TRUE, in, r, None, out, count)

\* Number of primitives in the caller's array.
MaxBatch == 2

BatchKinds == {"plane", "point", "direction", "line"}

RegsPer(kind) == IF kind = "line" THEN 2 ELSE 1

\* An array of primitives as it lies in memory: tightly packed registers.
Packed(kind, arr) ==
    [j \in 1..(Len(arr) * RegsPer(kind)) |->
        arr[((j - 1) \div RegsPer(kind)) + 1].regs[((j - 1) % RegsPer(kind)) + 1]]

\* Element i (from 1) of a packed array.
ElemAt(m, kind, i) ==
    Prim(kind, [j \in 1..RegsPer(kind) |-> m[(i - 1) * RegsPer(kind) + j]])

Arrays(kind) ==
    {Packed(kind, arr) : arr \in [1..MaxBatch -> {x \in SamplePrims : x.kind = kind}]}

InitBatch ==
    /\ pc = "batch"
    /\ rot \in {[r1 |-> r, r2 |-> None, r3 |-> None] : r \in SampleRotors}
    /\ \E kind \in BatchKinds :
         /\ prim = [kind |-> kind]
         /\ mem \in Arrays(kind)
    /\ orig = mem
    /\ call = None
    /\ NoRev /\ NoCtor

\* r(in, out, count) with in == out: both point at the first element.
BatchCall ==
    /\ pc = "batch"
    /\ \E count \in 0..MaxBatch :
         call' = [k |-> rotor_call_batch(prim.kind, rot.r1, 1, 1, count), i |-> 0]
    /\ pc' = "kernel"
    /\ UNCHANGED <<g, res, nrev, ctor, p1_, fpflags, thrown, rot, prim, mem, orig>>

\* One iteration of the kernel's loop.
KernelStep ==
    /\ pc = "kernel"
    /\ call.i < Limit(call.k)
    /\ mem' = KernelIter(mem, call.k, call.i)
    /\ call' = [call EXCEPT !.i = call.i + 1]
    /\ UNCHANGED <<pc, g, res, nrev, ctor, p1_, fpflags, thrown, rot, prim, orig>>

\* The loop ends and the call returns.
KernelReturn ==
    /\ pc = "kernel"
    /\ call.i >= Limit(call.k)
    /\ pc' = "batched"
    /\ UNCHANGED <<g, res, nrev, ctor, p1_, fpflags, thrown, rot, prim, mem, orig, call>>

NextBatch == BatchCall \/ KernelStep \/ KernelReturn

SpecBatch == InitBatch /\ [][NextBatch]_vars

====
